---- MODULE Spec2Model ----
(***************************************************************************)
(* Model of src/main.py: a Streamlit script that chats with a character    *)
(* persona (Groq text completion) and speaks the reply (ElevenLabs).       *)
(*                                                                         *)
(* The script is re-executed from the top on every widget interaction.     *)
(* One action models one script run up to its next blocking backend call:  *)
(* the outcome of each backend call (get_voices, agent.run_sync,           *)
(* text_to_speech.convert) is an input drawn from a small set.             *)
(* Python values are modelled as follows: None is the string "<None>";     *)
(* objects are records [type, data, chunks] whose type field is the Python *)
(* type the code's hasattr tests distinguish.                              *)
(***************************************************************************)
EXTENDS Integers, Sequences, FiniteSets, TLC

VARIABLES
    eleven_key,          \* st.secrets["ELEVENLABS_API_KEY"]: "missing", "invalid" or "valid"
    groq_key,            \* st.secrets["GROQ_API_KEY"]: "missing", "invalid" or "valid"
    pc,                  \* where the session is: Load, Crashed, Idle, AwaitingText, AwaitingAudio
    histories,           \* st.session_state.histories
    current_character,   \* st.session_state.current_character
    character_selector,  \* st.session_state.character_selector (the radio widget)
    voice_widget,        \* the voice selectbox's value, None when untouched
    voice_id,            \* module global voice_id, recomputed by every run
    prompt,              \* the chat_input value of the run, None when the run is no submission
    generation,          \* what agent.run_sync did in this run
    response_text,       \* local of the submission handler
    response_audio,      \* local of the submission handler
    audio_stream,        \* local of text_to_speech: what convert returned
    notices,             \* st.error / st.warning / uncaught exceptions shown by the run
    calls,               \* what the run did: backend calls, appends, script executions
    hist0,               \* histories as they were when the run began
    turns,               \* submissions so far
    clip                 \* the audio bytes the speech backend delivers in this session

vars == <<eleven_key, groq_key, pc, histories, current_character, character_selector,
          voice_widget, voice_id, prompt, generation, response_text, response_audio,
          audio_stream,
          notices, calls, hist0, turns, clip>>

----------------------------------------------------------------------------
(* Bounds *)

MaxTurns == 2
MaxChunks == 2

----------------------------------------------------------------------------
(* Python values *)

None == "<None>"

\* Variant: the test "!= ''" in place of truthiness, so that None passes
Truthy_not_empty(x) == x # ""

\* Variant: the test "is not None" in place of truthiness, so that "" passes
Truthy_is_not_None(x) == x # None

Truthy(x) == x # None /\ x # ""

NoneObject == [type |-> "NoneType", data |-> <<>>, chunks |-> <<>>]

BytesIO(d) == [type |-> "BytesIO", data |-> d, chunks |-> <<>>]

hasattr_read(obj) == obj.type \in {"BytesIO", "reader"}

hasattr_getvalue(obj) == obj.type = "BytesIO"

getvalue(obj) == obj.data

----------------------------------------------------------------------------
(* Character registry *)

CHARACTER_PROFILES ==
    [c \in {"Sherlock Holmes", "Wednesday Addams", "Tony Stark"} |->
        [default_voice |-> CASE c = "Sherlock Holmes" -> "Antoni"
                             [] c = "Wednesday Addams" -> "Rachel"
                             [] c = "Tony Stark" -> "Josh"]]

CharacterKeys == <<"Sherlock Holmes", "Wednesday Addams", "Tony Stark">>

Characters == DOMAIN CHARACTER_PROFILES

----------------------------------------------------------------------------
(* Messages *)

Absent == [tag |-> "absent", data |-> <<>>]

UserMessage(text) == [role |-> "user", content |-> text, audio |-> Absent]

\* {"role": "assistant", "content": ..., "audio": getvalue() if response_audio else None}
AssistantMessageWithAudio(text, audio_obj) ==
    [role |-> "assistant", content |-> text,
     audio |-> IF audio_obj.type # "NoneType"
               THEN [tag |-> "bytes", data |-> getvalue(audio_obj)]
               ELSE [tag |-> "None", data |-> <<>>]]

\* {"role": "assistant", "content": ...}: the message has no "audio" key
AssistantMessageTextOnly(text) == [role |-> "assistant", content |-> text, audio |-> Absent]

\* Variant: every character's entry is the same list object (dict.fromkeys(..., []))
append_shared(h, name, message) == [c \in DOMAIN h |-> Append(h[c], message)]

\* Variant: current_history.insert(0, message)
append_front(h, name, message) == [h EXCEPT ![name] = <<message>> \o @]

\* current_history.append(message): current_history is the list object of one character
append(h, name, message) == [h EXCEPT ![name] = Append(@, message)]

----------------------------------------------------------------------------
(* Backend outcomes: the inputs of the model *)

Bytes == {0, 1}

Prompts == {"Who are you?"}

Replies == {"", "Elementary."}

Range(f) == {f[i] : i \in DOMAIN f}

SeqsUpTo(S, n) == UNION {[1..k -> S] : k \in 0..n}

\* The audio the speech backend may hold for a reply: nothing, or two different bytes
Clips == {<<>>, <<0, 1>>}

\* A chunk is any run of bytes of a clip
Chunks == SeqsUpTo(Bytes, 2)

RECURSIVE Flatten(_)
Flatten(cs) == IF cs = <<>> THEN <<>> ELSE Head(cs) \o Flatten(Tail(cs))

ChunkSeqs == SeqsUpTo(Chunks, MaxChunks)

\* client.text_to_speech.convert, asked for audio whose bytes are audio: it raises,
\* or returns an iterator over some split of the bytes into chunks, or returns
\* them as one file-like object (an in-memory BytesIO, or another reader, which
\* has read but no getvalue)
AudioStreams(audio) ==
    {[type |-> "raise", data |-> <<>>, chunks |-> <<>>]}
    \cup {[type |-> "generator", data |-> <<>>, chunks |-> cs] :
             cs \in {x \in ChunkSeqs : Flatten(x) = audio}}
    \cup {[type |-> t, data |-> audio, chunks |-> <<>>] : t \in {"BytesIO", "reader"}}

NoGeneration == [ok |-> FALSE, data |-> "<not called>"]

NoStream == [type |-> "none", data |-> <<>>, chunks |-> <<>>]

Voice(n) == [name |-> n, voice_id |-> "id-" \o n]

\* client.voices.get_all: raises, or returns the catalog
VoicesOutcomes(key) ==
    {[ok |-> FALSE, voices |-> <<>>]}
    \cup (IF key = "valid"
          THEN {[ok |-> TRUE, voices |-> vs] : vs \in {<<>>, <<Voice("Rachel"), Voice("Antoni")>>}}
          ELSE {})

\* agent.run_sync(prompt).data: raises (also when the secret is missing), or returns text
GenerateOutcomes(key) ==
    {[ok |-> FALSE, data |-> None]}
    \cup (IF key = "valid" THEN {[ok |-> TRUE, data |-> r] : r \in Replies} ELSE {})

----------------------------------------------------------------------------
(* text_to_speech *)

\* buffer.write(chunk) on a buffer only ever written at its end
write(buffer, chunk) == [buffer EXCEPT !.data = @ \o chunk]

\* for chunk in audio_stream: buffer.write(chunk)
RECURSIVE consume(_, _)
consume(buffer, stream_chunks) ==
    IF stream_chunks = <<>> THEN buffer
    ELSE consume(write(buffer, Head(stream_chunks)), Tail(stream_chunks))

\* Variant: the except branch returns an empty buffer instead of None
text_to_speech_empty_on_error(stream) ==
    IF stream.type = "raise" THEN BytesIO(<<>>)
    ELSE IF hasattr_read(stream) THEN stream
    ELSE consume(BytesIO(<<>>), stream.chunks)

text_to_speech(stream) ==
    IF stream.type = "raise" THEN NoneObject
    ELSE IF hasattr_read(stream) THEN stream
    ELSE consume(BytesIO(<<>>), stream.chunks)

text_to_speech_notices(stream) ==
    IF stream.type = "raise" THEN {<<"error", "Error generating audio">>} ELSE {}

----------------------------------------------------------------------------
(* get_voices and the voice picker *)

get_voices(outcome) == IF outcome.ok THEN outcome.voices ELSE <<>>

get_voices_notices(outcome) ==
    IF outcome.ok THEN {} ELSE {<<"error", "Error fetching voices">>}

voice_names(voices) == [i \in DOMAIN voices |-> voices[i].name]

\* voice_names.index(default_voice) if default_voice in voice_names else 0 (1-based here)
default_index(names, character) ==
    LET d == CHARACTER_PROFILES[character].default_voice
    IN IF d \in Range(names)
       THEN CHOOSE i \in DOMAIN names : names[i] = d /\ \A j \in 1..(i - 1) : names[j] # d
       ELSE 1

\* st.selectbox("Select Voice", voice_names, index=default_index)
selected_voice(names, widget, character) ==
    IF widget \in Range(names) THEN widget ELSE names[default_index(names, character)]

\* lines 138-153: the value of voice_id after the sidebar ran
sidebar_voice_id(outcome, widget, character) ==
    LET voices == get_voices(outcome)
        names == voice_names(voices)
    IN IF names # <<>>
       THEN LET sel == selected_voice(names, widget, character)
                i == CHOOSE k \in DOMAIN voices :
                        voices[k].name = sel /\ \A j \in 1..(k - 1) : voices[j].name # sel
            IN voices[i].voice_id
       ELSE None

sidebar_notices(outcome) ==
    get_voices_notices(outcome)
    \cup (IF voice_names(get_voices(outcome)) # <<>> THEN {}
          ELSE {<<"warning", "Could not load voices. Check your ElevenLabs API key.">>})

----------------------------------------------------------------------------
(* get_character_response *)

\* Variant: the except branch returns the error text as the reply
get_character_response_error_text(outcome) == IF outcome.ok THEN outcome.data ELSE "Error"

get_character_response(outcome) == IF outcome.ok THEN outcome.data ELSE None

get_character_response_notices(outcome) ==
    IF outcome.ok THEN {} ELSE {<<"error", "Error">>}


----------------------------------------------------------------------------
(* The session *)

NoCalls == [voices |-> 0, generate |-> 0, synthesize |-> 0, appends |-> 0, runs |-> 0]

KeyStates == {"missing", "invalid", "valid"}

\* The browser has opened the page; the script has not run yet.
Init ==
    /\ eleven_key \in KeyStates
    /\ groq_key \in KeyStates
    /\ pc = "Load"
    /\ histories = [c \in Characters |-> <<>>]
    /\ current_character = CharacterKeys[1]
    /\ character_selector = CharacterKeys[1]
    /\ voice_widget = None
    /\ voice_id = None
    /\ prompt = None
    /\ generation = NoGeneration
    /\ response_text = None
    /\ response_audio = NoneObject
    /\ audio_stream = NoStream
    /\ notices = {}
    /\ calls = NoCalls
    /\ hist0 = [c \in Characters |-> <<>>]
    /\ turns = 0
    /\ clip \in Clips

\* What every run without a submission leaves in the locals of the handler.
NoSubmission ==
    /\ prompt' = None
    /\ generation' = NoGeneration
    /\ response_text' = None
    /\ response_audio' = NoneObject
    /\ audio_stream' = NoStream

\* The first run of the script (lines 9-177). client is built from
\* st.secrets["ELEVENLABS_API_KEY"] at module level, outside any try: a missing
\* secret raises there and ends the run, as it does every later run.
PageLoad(v) ==
    /\ pc = "Load"
    /\ IF eleven_key = "missing"
       THEN /\ pc' = "Crashed"
            /\ notices' = {<<"exception", "KeyError">>}
            /\ calls' = [NoCalls EXCEPT !.runs = 1]
            /\ UNCHANGED voice_id
       ELSE /\ v \in VoicesOutcomes(eleven_key)
            /\ pc' = "Idle"
            /\ voice_id' = sidebar_voice_id(v, voice_widget, current_character)
            /\ notices' = sidebar_notices(v)
            /\ calls' = [NoCalls EXCEPT !.runs = 1, !.voices = 1]
    /\ NoSubmission
    /\ hist0' = histories
    /\ UNCHANGED <<eleven_key, groq_key, histories, current_character, character_selector,
                   voice_widget, turns, clip>>

\* The user picks another character in the radio widget (lines 122-132): the run
\* sees new_character != current_character, stores it and calls st.rerun(); the
\* second run renders the sidebar and the new character's history.
SelectCharacter(c, v) ==
    /\ pc = "Idle"
    /\ c # character_selector
    /\ v \in VoicesOutcomes(eleven_key)
    /\ character_selector' = c
    /\ LET new_character == c
       IN IF new_character # current_character
          THEN /\ current_character' = new_character
               /\ voice_widget' = None
               /\ calls' = [NoCalls EXCEPT !.runs = 2, !.voices = 1]
          ELSE /\ UNCHANGED <<current_character, voice_widget>>
               /\ calls' = [NoCalls EXCEPT !.runs = 1, !.voices = 1]
    /\ voice_id' = sidebar_voice_id(v, voice_widget', current_character')
    /\ notices' = sidebar_notices(v)
    /\ pc' = "Idle"
    /\ NoSubmission
    /\ hist0' = histories
    /\ UNCHANGED <<eleven_key, groq_key, histories, turns, clip>>

\* The user picks a voice in the selectbox (line 144), shown only when the last
\* run loaded voices; the script runs again.
PickVoice(n, v) ==
    /\ pc = "Idle"
    /\ voice_id # None
    /\ n # voice_widget
    /\ v \in VoicesOutcomes(eleven_key)
    /\ voice_widget' = n
    /\ voice_id' = sidebar_voice_id(v, n, current_character)
    /\ notices' = sidebar_notices(v)
    /\ calls' = [NoCalls EXCEPT !.runs = 1, !.voices = 1]
    /\ pc' = "Idle"
    /\ NoSubmission
    /\ hist0' = histories
    /\ UNCHANGED <<eleven_key, groq_key, histories, current_character, character_selector,
                   turns, clip>>

\* The user submits p in the chat input (lines 109-189): the run renders the
\* sidebar, appends the user's message and calls get_character_response.
Submit(p, v) ==
    /\ pc = "Idle"
    /\ turns < MaxTurns
    /\ Truthy(p)
    /\ v \in VoicesOutcomes(eleven_key)
    /\ voice_id' = sidebar_voice_id(v, voice_widget, current_character)
    /\ notices' = sidebar_notices(v)
    /\ prompt' = p
    /\ histories' = append(histories, current_character, UserMessage(p))
    /\ calls' = [NoCalls EXCEPT !.runs = 1, !.voices = 1, !.appends = 1]
    /\ pc' = "AwaitingText"
    /\ generation' = NoGeneration
    /\ response_text' = None
    /\ response_audio' = NoneObject
    /\ audio_stream' = NoStream
    /\ hist0' = histories
    /\ turns' = turns + 1
    /\ UNCHANGED <<eleven_key, groq_key, current_character, character_selector, voice_widget,
                   clip>>

\* get_character_response returns (lines 189-192, 210-220).
GenerateReturn(g) ==
    /\ pc = "AwaitingText"
    /\ g \in GenerateOutcomes(groq_key)
    /\ generation' = g
    /\ response_text' = get_character_response(g)
    /\ calls' = [calls EXCEPT !.generate = @ + 1,
                              !.appends = IF Truthy(response_text') /\ ~Truthy(voice_id)
                                          THEN @ + 1 ELSE @]
    /\ IF Truthy(response_text') /\ Truthy(voice_id)
       THEN /\ pc' = "AwaitingAudio"
            /\ notices' = notices \cup get_character_response_notices(g)
            /\ UNCHANGED histories
       ELSE IF Truthy(response_text')
       THEN /\ pc' = "Idle"
            /\ histories' = append(histories, current_character,
                                   AssistantMessageTextOnly(response_text'))
            /\ notices' = notices \cup get_character_response_notices(g)
                   \cup {<<"warning", "Voice generation failed. Check your ElevenLabs API key.">>}
       ELSE /\ pc' = "Idle"
            /\ notices' = notices \cup get_character_response_notices(g)
                   \cup {<<"error", "Failed to generate character response">>}
            /\ UNCHANGED histories
    /\ UNCHANGED <<eleven_key, groq_key, current_character, character_selector, voice_widget,
                   voice_id, prompt, response_audio, audio_stream, hist0, turns, clip>>

\* Variant: a synthesis call that raised is made once more
SynthesizeRetry(s) ==
    /\ pc = "AwaitingAudio"
    /\ s \in AudioStreams(clip)
    /\ audio_stream' = s
    /\ response_audio' = text_to_speech(s)
    /\ IF s.type = "raise" /\ calls.synthesize = 0
       THEN /\ notices' = notices \cup text_to_speech_notices(s)
            /\ calls' = [calls EXCEPT !.synthesize = @ + 1]
            /\ pc' = "AwaitingAudio"
            /\ UNCHANGED histories
       ELSE /\ IF response_audio'.type # "NoneType" /\ ~hasattr_getvalue(response_audio')
               THEN /\ notices' = notices \cup {<<"exception", "AttributeError">>}
                    /\ calls' = [calls EXCEPT !.synthesize = @ + 1]
                    /\ UNCHANGED histories
               ELSE /\ notices' = notices \cup text_to_speech_notices(s)
                    /\ calls' = [calls EXCEPT !.synthesize = @ + 1, !.appends = @ + 1]
                    /\ histories' = append(histories, current_character,
                                           AssistantMessageWithAudio(response_text, response_audio'))
            /\ pc' = "Idle"
    /\ UNCHANGED <<eleven_key, groq_key, current_character, character_selector, voice_widget,
                   voice_id, prompt, generation, response_text, hist0, turns, clip>>

\* text_to_speech returns (lines 193-209). response_audio.getvalue() raises
\* AttributeError, uncaught, when the object text_to_speech passed through has none:
\* the run ends there, after the user's message and before the assistant's.
SynthesizeReturn(s) ==
    /\ pc = "AwaitingAudio"
    /\ s \in AudioStreams(clip)
    /\ audio_stream' = s
    /\ response_audio' = text_to_speech(s)
    /\ IF response_audio'.type # "NoneType" /\ ~hasattr_getvalue(response_audio')
       THEN /\ notices' = notices \cup {<<"exception", "AttributeError">>}
            /\ calls' = [calls EXCEPT !.synthesize = @ + 1]
            /\ UNCHANGED histories
       ELSE /\ notices' = notices \cup text_to_speech_notices(s)
            /\ calls' = [calls EXCEPT !.synthesize = @ + 1, !.appends = @ + 1]
            /\ histories' = append(histories, current_character,
                                   AssistantMessageWithAudio(response_text, response_audio'))
    /\ pc' = "Idle"
    /\ UNCHANGED <<eleven_key, groq_key, current_character, character_selector, voice_widget,
                   voice_id, prompt, generation, response_text, hist0, turns, clip>>

Next ==
    \/ \E v \in VoicesOutcomes("valid") : PageLoad(v)
    \/ \E c \in Characters, v \in VoicesOutcomes("valid") : SelectCharacter(c, v)
    \/ \E n \in {"Rachel", "Antoni"}, v \in VoicesOutcomes("valid") : PickVoice(n, v)
    \/ \E p \in Prompts, v \in VoicesOutcomes("valid") : Submit(p, v)
    \/ \E g \in GenerateOutcomes("valid") : GenerateReturn(g)
    \/ pc = "AwaitingAudio" /\ \E s \in AudioStreams(clip) : SynthesizeReturn(s)

Spec == Init /\ [][Next]_vars

TypeOK ==
    /\ pc \in {"Load", "Crashed", "Idle", "AwaitingText", "AwaitingAudio"}
    /\ current_character \in Characters
    /\ pc = "Idle" => character_selector = current_character
    /\ turns \in 0..MaxTurns

----------------------------------------------------------------------------
(* Vocabulary of the properties *)

IsPrefix(a, b) == Len(a) <= Len(b) /\ SubSeq(b, 1, Len(a)) = a

\* What the run has added to the selected character's history
Added ==
    SubSeq(histories[current_character], Len(hist0[current_character]) + 1,
           Len(histories[current_character]))

\* The run left every earlier message of every history in place
OnlySelectedGrew ==
    /\ IsPrefix(hist0[current_character], histories[current_character])
    /\ \A c \in Characters \ {current_character} : histories[c] = hist0[c]

Submitted == prompt # None

GenerationFailed == Submitted /\ calls.generate = 1 /\ ~generation.ok

GeneratedText == Submitted /\ calls.generate = 1 /\ generation.ok /\ generation.data # ""

GeneratedNothing == Submitted /\ calls.generate = 1 /\ generation.ok /\ generation.data = ""

SynthesisReturnedAudio ==
    calls.synthesize = 1 /\ audio_stream.type \in {"generator", "BytesIO", "reader"}

SynthesisRaised == calls.synthesize = 1 /\ audio_stream.type = "raise"

Shown(level) == \E n \in notices : n[1] = level

----------------------------------------------------------------------------
(* C1: whenever a submission's generator call returned reply text and its  *)
(* synthesis call returned audio, the selected character's history has     *)
(* grown by exactly the user's message followed by one assistant message   *)
(* carrying that text, and no other history has changed.                   *)
C1_SuccessAppendsUserThenAssistant ==
    (GeneratedText /\ SynthesisReturnedAudio) =>
        /\ OnlySelectedGrew
        /\ Len(Added) = 2
        /\ Added[1] = UserMessage(prompt)
        /\ Added[2].role = "assistant"
        /\ Added[2].content = generation.data

(* C2: whenever the generator call of a submission failed, the session is  *)
(* back at Idle, the selected character's history has grown by the user's  *)
(* message alone, no synthesis call was made and an error is shown.        *)
C2_GenerationFailureKeepsUserTurn ==
    GenerationFailed =>
        /\ pc = "Idle"
        /\ OnlySelectedGrew
        /\ Added = <<UserMessage(prompt)>>
        /\ calls.synthesize = 0
        /\ <<"error", "Error">> \in notices
        /\ <<"error", "Failed to generate character response">> \in notices

C2_Witness == GenerationFailed /\ groq_key = "valid" /\ Len(hist0[current_character]) > 0

\* The submission ended with text but without audio: no voice was selected, or
\* the synthesis call raised
TextWithoutAudio ==
    pc = "Idle" /\ GeneratedText /\ (voice_id = None \/ SynthesisRaised)

TextOnlyTurnAppended ==
    /\ OnlySelectedGrew
    /\ Len(Added) = 2
    /\ Added[1] = UserMessage(prompt)
    /\ Added[2].role = "assistant"
    /\ Added[2].content = generation.data
    /\ Added[2].audio.tag \in {"absent", "None"}

(* C3 as stated: when generation succeeded and synthesis gave no audio     *)
(* (the call raised, or no voice was selected), one assistant message with *)
(* the text and no audio is appended and a warning is shown.               *)
C3_NoAudioShowsWarning ==
    TextWithoutAudio => (TextOnlyTurnAppended /\ Shown("warning"))

(* C3 as amended: ... one assistant message with the text and no audio is  *)
(* appended; a warning is shown when no voice was selected, and an error   *)
(* (not a warning) when the synthesis call raised.                         *)
C3_NoAudioKeepsTextAndTellsUser ==
    TextWithoutAudio =>
        /\ TextOnlyTurnAppended
        /\ voice_id = None =>
              <<"warning", "Voice generation failed. Check your ElevenLabs API key.">> \in notices
        /\ SynthesisRaised => <<"error", "Error generating audio">> \in notices

C3_Witness == TextWithoutAudio /\ SynthesisRaised /\ ~Shown("warning")

(* C4: a step changes the history of a character only if that character is *)
(* the selected one and the step belongs to a submission; a step that      *)
(* changes the selected character changes no history.                      *)
C4_HistoriesIndependent ==
    [][ /\ current_character' # current_character => histories' = histories
        /\ \A c \in Characters :
              histories'[c] # histories[c] =>
                  /\ c = current_character
                  /\ current_character' = current_character
                  /\ prompt' # None ]_vars

C4_Witness ==
    \E a, b \in Characters :
        /\ a # b
        /\ current_character \notin {a, b}
        /\ histories[a] # <<>>
        /\ histories[b] # <<>>
        /\ histories[current_character] = <<>>

(* C5: whenever the synthesis call returned the session's audio, as one    *)
(* file-like block or as any sequence of chunks with those contents, the   *)
(* assistant message appended by the run stores exactly those bytes.       *)
C5_StoredAudioSameForBlockAndChunks ==
    (pc = "Idle" /\ SynthesisReturnedAudio) =>
        /\ Len(Added) = 2
        /\ Added[2].audio = [tag |-> "bytes", data |-> clip]

(* C6: a missing or invalid credential never ends a run with an uncaught   *)
(* exception; a bad speech credential leaves the voice unset with a        *)
(* warning shown and no synthesis call, a bad language-model credential    *)
(* makes generation fail with an error shown.                              *)
C6_BadCredentialDegradesGracefully ==
    /\ pc # "Crashed"
    /\ (eleven_key # "valid" /\ pc = "Idle") =>
          voice_id = None /\ Shown("warning") /\ calls.synthesize = 0
    /\ (groq_key # "valid" /\ calls.generate = 1) => (GenerationFailed /\ Shown("error"))

\* A submission has run to its end
CycleDone == pc = "Idle" /\ Submitted

(* C7 as stated: a finished submission has made at most one generator call *)
(* and at most one synthesis call, exactly one append, and one script run. *)
C7_OneAppendPerCycle ==
    CycleDone =>
        /\ calls.generate <= 1
        /\ calls.synthesize <= 1
        /\ calls.appends = 1
        /\ calls.runs = 1

(* C7 as amended: a submission makes at most one generator call, at most   *)
(* one synthesis call and one voice-catalog query, runs the script once,   *)
(* and appends one or two messages: the user's, then at most one           *)
(* assistant's. No call is repeated.                                       *)
C7_AtMostOneCallEach ==
    /\ calls.generate <= 1
    /\ calls.synthesize <= 1
    /\ calls.voices <= 1
    /\ calls.appends = Len(Added)
    /\ Submitted => (calls.appends \in {1, 2} /\ calls.runs = 1 /\ calls.voices = 1)
    /\ CycleDone => calls.generate = 1

C7_Witness == CycleDone /\ calls.appends = 2 /\ calls.synthesize = 1 /\ calls.generate = 1

(* C8: the session moves Idle -> AwaitingText -> AwaitingAudio -> Idle:    *)
(* the user's message is appended on leaving Idle, the generator is called *)
(* only in AwaitingText, synthesis only in AwaitingAudio, which is entered *)
(* only after the generator returned text; a failed generation goes        *)
(* straight back to Idle; no submission starts and no character is         *)
(* switched except at Idle.                                                *)
C8_LoopOrder ==
    [][ /\ <<pc, pc'>> \in {<<"Load", "Idle">>, <<"Load", "Crashed">>, <<"Idle", "Idle">>,
                            <<"Idle", "AwaitingText">>, <<"AwaitingText", "AwaitingAudio">>,
                            <<"AwaitingText", "Idle">>, <<"AwaitingAudio", "Idle">>}
        /\ (current_character' # current_character \/ turns' # turns) => pc = "Idle"
        /\ turns' # turns =>
              /\ pc' = "AwaitingText"
              /\ histories'[current_character]
                     = Append(histories[current_character], UserMessage(prompt'))
        /\ calls'.generate > calls.generate => pc = "AwaitingText"
        /\ calls'.synthesize > calls.synthesize => pc = "AwaitingAudio"
        /\ pc' = "AwaitingAudio" => (generation'.ok /\ generation'.data # "")
        /\ (pc = "AwaitingText" /\ ~generation'.ok) => pc' = "Idle"
        /\ (pc # "Idle" /\ histories' # histories) => pc' = "Idle" ]_vars

C8_Witness == pc = "AwaitingAudio" /\ turns = MaxTurns /\ current_character # CharacterKeys[1]

(* C9: histories only grow at their end, and every assistant message is    *)
(* immediately preceded by a user message of the same history.             *)
C9_AppendOnlyAndPaired ==
    /\ [](\A c \in Characters : \A i \in DOMAIN histories[c] :
             histories[c][i].role = "assistant" =>
                 (i > 1 /\ histories[c][i - 1].role = "user"))
    /\ [][\A c \in Characters : IsPrefix(histories[c], histories'[c])]_vars

C9_Witness ==
    \E c \in Characters :
        /\ Len(histories[c]) = 3
        /\ histories[c][1].role = "user"
        /\ histories[c][2].role = "user"
        /\ histories[c][3].role = "assistant"

(* C10: no stored assistant message has empty text; when the generator     *)
(* returns empty text the run ends as after a failure: back at Idle, only  *)
(* the user's message appended, no synthesis call, an error shown.         *)
C10_EmptyReplyIsAFailure ==
    /\ \A c \in Characters : \A i \in DOMAIN histories[c] :
          histories[c][i].role = "assistant" => histories[c][i].content \notin {"", None}
    /\ GeneratedNothing =>
          /\ pc = "Idle"
          /\ OnlySelectedGrew
          /\ Added = <<UserMessage(prompt)>>
          /\ calls.synthesize = 0
          /\ <<"error", "Failed to generate character response">> \in notices

C10_Witness == GeneratedNothing /\ voice_id # None

====
